---- MODULE Spec2Model ----
(***************************************************************************)
(* Arrmate: the intent resolution and execution pipeline                   *)
(* (parse -> enrich -> validate -> execute), the backend adapters it       *)
(* drives, the service discovery sweep, requests served concurrently, the  *)
(* credential store with the protected web routes, and the web layer's     *)
(* shared parser.                                                          *)
(*                                                                         *)
(* Python values are represented as follows.  An unset Optional[int]       *)
(* (season, item_id, series_id) is None == -1.  A title is a sequence of   *)
(* one-character strings; the empty sequence stands for both None and ""   *)
(* (the code only ever tests a title for truthiness before using it).      *)
(* An episodes list that is None or [] is the empty sequence.              *)
(***************************************************************************)
EXTENDS Integers, Sequences, FiniteSets, TLC

VARIABLES
    settings,      \* backend name -> [url, key]: which environment parameters are set
    library,       \* library listing of the addressed backend (api/v3/series, api/v3/movie)
    catalog,       \* external catalog of the addressed backend (the lookup endpoint)
    episodes,      \* episode records of the addressed Sonarr
    profiles,      \* quality profiles of the addressed backend
    rootFolders,   \* root folders of the addressed backend
    deletedFiles,  \* episode file ids the backend has deleted
    deletedItems,  \* library ids the backend has deleted
    added,         \* catalog ids the backend has created library items for
    pc,            \* position of the request in its entry point
    entry,         \* entry point serving the request: "api", "cli" or "web"
    dry_run,       \* the request's dry_run flag
    intent,        \* the request's Intent object (mutated in place by enrich)
    extracted,     \* what the extraction capability handed to parse
    parsed,        \* the Intent as parse returned it
    errors,        \* the list validate returned
    execArg,       \* the Intent handed to Executor.execute
    result,        \* the ExecutionResult execute returned
    outcome,       \* how the entry point finished
    status,        \* HTTP status of the REST response (0: none)
    log,           \* adapter events of the request, in program order
    services,      \* the map discover_services is building / has returned
    cursor,        \* index of the next backend block of discover_services
    sweep,         \* "idle", "running", "returned" or "raised"
    probes,        \* backend name -> what its probe and its release met in this sweep
    started,       \* backends whose probe the sweep has started awaiting
    prompt,        \* the service context of the parser's system prompt
    rq,            \* concurrent requests: request -> its position and the objects it holds
    adapters,      \* the adapter instances constructed so far, in order of construction
    store,         \* the credential file auth.json
    authOp,        \* the last credential operation: its name, the store before it, its outcome
    tokens,        \* the session tokens handed out so far
    visit,         \* the last request to a protected web route and what require_auth decided
    parser,        \* the web layer's global parser: 0 (None) or the index of an instance
    parsers,       \* the CommandParser instances the web layer has constructed
    callers        \* web requests inside get_parser: caller -> position and instance received

vars == <<settings, library, catalog, episodes, profiles, rootFolders,
          deletedFiles, deletedItems, added, pc, entry, dry_run, intent,
          extracted, parsed, errors, execArg, result, outcome, status, log,
          services, cursor, sweep, probes, started, prompt,
          rq, adapters, store, authOp, tokens, visit, parser, parsers, callers>>

backendVars == <<library, catalog, episodes, profiles, rootFolders>>
effectVars  == <<deletedFiles, deletedItems, added>>
requestVars == <<pc, entry, dry_run, intent, extracted, parsed, errors, execArg, result,
                 outcome, status, log>>
sweepVars   == <<services, cursor, sweep, probes, started, prompt>>
concurrentVars == <<rq, adapters>>
authVars    == <<store, authOp, tokens, visit>>
webVars     == <<parser, parsers, callers>>

(***************************************************************************)
(* Bounds                                                                  *)
(***************************************************************************)
MaxSeason == 1          \* seasons 0..MaxSeason
MaxEpisode == 2         \* episode numbers 1..MaxEpisode
MaxLib == 2             \* length of a library listing
MaxUnconfigured == 1    \* backends left without configuration
MaxConfigured == 3      \* backends configured for a discovery sweep

None == -1

Range(s) == {s[k] : k \in 1..Len(s)}

(***************************************************************************)
(* Strings: str.lower(), the "in" substring test                           *)
(***************************************************************************)
LowerChar(c) == IF c = "A" THEN "a" ELSE c

Lower(s) == [k \in 1..Len(s) |-> LowerChar(s[k])]

\* needle in hay (Python: needle in hay), both sequences of characters
Contains(hay, needle) ==
    \E k \in 0..(Len(hay) - Len(needle)) :
        \A j \in 1..Len(needle) : hay[k + j] = needle[j]

RECURSIVE SeqsUpTo(_, _)
SeqsUpTo(S, n) ==
    IF n = 0 THEN {<<>>}
    ELSE LET shorter == SeqsUpTo(S, n - 1)
         IN shorter \cup {Append(s, x) : s \in shorter, x \in S}

(***************************************************************************)
(* core/models.py, llm/schemas.py                                          *)
(***************************************************************************)
MediaType == {"tv", "movie", "music", "audiobook"}

ActionType == {"remove", "search", "add", "upgrade", "list", "info", "delete"}

SchemaActions == {"remove", "search", "add", "upgrade", "list", "info", "delete",
                  "download_subtitle", "sync_subtitles"}

SchemaMediaTypes == {"tv", "movie", "music", "audiobook", "book", "adult"}

NoIntent == [action |-> "none", media_type |-> "none", title |-> <<>>,
             season |-> None, episodes |-> <<>>, item_id |-> None,
             series_id |-> None]

Intent(a, m, t, s, e) ==
    [action |-> a, media_type |-> m, title |-> t, season |-> s,
     episodes |-> e, item_id |-> None, series_id |-> None]

NoData == [kind |-> "none", deleted_count |-> 0, file_ids |-> <<>>,
           id |-> None, items |-> <<>>]

ExecutionResult(ok, msg, d, errs) ==
    [success |-> ok, message |-> msg, data |-> d, errors |-> errs]

NoResult == ExecutionResult(FALSE, "", NoData, <<>>)

\* Python truthiness of an Optional[int]
Truthy(x) == x # None /\ x # 0

(***************************************************************************)
(* IntentEngine.validate                                                   *)
(***************************************************************************)
TitleRequired == "Title is required for this action"
TitleRequiredAdd == "Title is required to add media"
SeasonRequired == "Season number is required when specifying episodes"

\* stops at the first violated rule
ValidateFirstOnly(i) ==
    IF i.action \in {"remove", "delete", "info"} /\ i.title = <<>>
    THEN <<TitleRequired>>
    ELSE IF i.action = "add" /\ i.title = <<>> THEN <<TitleRequiredAdd>>
    ELSE IF /\ i.media_type = "tv"
            /\ i.action \in {"remove", "delete"}
            /\ i.episodes # <<>>
            /\ ~Truthy(i.season)
         THEN <<SeasonRequired>>
    ELSE <<>>

\* lacks the TV rule
ValidateNoSeasonRule(i) ==
    (IF i.action \in {"remove", "delete", "info"} /\ i.title = <<>>
        THEN <<TitleRequired>> ELSE <<>>)
    \o (IF i.action = "add" /\ i.title = <<>>
        THEN <<TitleRequiredAdd>> ELSE <<>>)

Validate(i) ==
    (IF i.action \in {"remove", "delete", "info"} /\ i.title = <<>>
        THEN <<TitleRequired>> ELSE <<>>)
    \o (IF i.action = "add" /\ i.title = <<>>
        THEN <<TitleRequiredAdd>> ELSE <<>>)
    \o (IF /\ i.media_type = "tv"
           /\ i.action \in {"remove", "delete"}
           /\ i.episodes # <<>>
           /\ ~Truthy(i.season)
        THEN <<SeasonRequired>> ELSE <<>>)

(***************************************************************************)
(* clients/discovery.py: get_client_for_media_type                         *)
(***************************************************************************)
MediaBackends == {"sonarr", "radarr", "lidarr", "readarr", "whisparr"}

Configured(b) == settings[b].url /\ settings[b].key

OwnerOf(media_type) ==
    CASE media_type = "tv" -> "sonarr"
      [] media_type = "movie" -> "radarr"
      [] media_type = "music" -> "lidarr"
      [] media_type \in {"audiobook", "book"} -> "readarr"
      [] media_type = "adult" -> "whisparr"
      [] OTHER -> "unsupported"

\* the environment parameters the "... is not configured. Set X_URL and
\* X_API_KEY." message of the owning backend's branch names
NamedParameters(media_type) ==
    IF OwnerOf(media_type) = "unsupported" THEN {}
    ELSE {<<OwnerOf(media_type), "url">>, <<OwnerOf(media_type), "key">>}

\* the adapter class returned, or "ValueError"
\* looks at the URL alone
GetClientForMediaTypeUrlOnly(media_type) ==
    LET b == OwnerOf(media_type)
    IN IF b = "unsupported" THEN "ValueError"
       ELSE IF ~settings[b].url THEN "ValueError"
       ELSE b

GetClientForMediaType(media_type) ==
    LET b == OwnerOf(media_type)
    IN IF b = "unsupported" THEN "ValueError"
       ELSE IF ~Configured(b) THEN "ValueError"
       ELSE b

\* hasattr(client, "get_all_series") / hasattr(client, "get_all_movies")
ListingCall(client) ==
    CASE client = "sonarr" -> "get_all_series"
      [] client \in {"radarr", "whisparr"} -> "get_all_movies"
      [] OTHER -> "none"

(***************************************************************************)
(* The run of one enrich or execute call: the adapter it acquired, the     *)
(* events it produced and the backend effects it caused so far.            *)
(***************************************************************************)
Event(op, c, id, arg, bad) ==
    [op |-> op, c |-> c, id |-> id, arg |-> arg, raised |-> bad]

\* before get_client_for_media_type has returned an adapter
NoRun(i) ==
    [c |-> 0, calls |-> <<>>, n |-> 0, raised |-> FALSE, error |-> "",
     intent |-> i, delFiles |-> deletedFiles, delItems |-> deletedItems,
     added |-> added, res |-> NoResult]

\* the adapter instance c has been constructed; its httpx client is not yet open
Acquired(i, c) ==
    [NoRun(i) EXCEPT !.c = c,
                     !.calls = <<Event("acquire", c, None, None, FALSE)>>]

Raise(st, err) == [st EXCEPT !.raised = TRUE, !.error = err]

Return(st, res) == [st EXCEPT !.res = res]

\* BaseMediaClient._get/_post/_delete: the n-th request of the adapter raises
\* when the transport fails (n \in faults) or the backend answers non-2xx
Http(st, op, id, arg, faults, rejected) ==
    LET bad == (st.n + 1) \in faults \/ rejected
    IN [st EXCEPT !.calls = Append(@, Event(op, st.c, id, arg, bad)),
                  !.n = @ + 1,
                  !.raised = bad,
                  !.error = IF bad THEN "HTTPError" ELSE @]

\* BaseMediaClient.close as the finally clause of enrich and execute calls it:
\* aclose() is only reached when a request has opened the httpx client
FinallyOnlyOnSuccess(st, closeBad) ==
    IF st.raised THEN st
    ELSE [st EXCEPT !.calls = Append(@, Event("close", st.c, None, None,
                                              closeBad /\ st.n > 0)),
                    !.raised = closeBad /\ st.n > 0,
                    !.error = IF closeBad /\ st.n > 0 THEN "CloseError" ELSE @]

Finally(st, closeBad) ==
    LET bad == closeBad /\ st.n > 0
    IN [st EXCEPT !.calls = Append(@, Event("close", st.c, None, None, bad)),
                  !.raised = @ \/ bad,
                  !.error = IF bad THEN "CloseError" ELSE @]

(***************************************************************************)
(* The backend as the adapters see it (Sonarr/Radarr v3 REST semantics)    *)
(***************************************************************************)
\* GET api/v3/series, api/v3/movie
CurLibrary(st) == SelectSeq(library, LAMBDA it : it.id \notin st.delItems)

LibraryIds(st) == {it.id : it \in Range(CurLibrary(st))}

\* GET api/v3/series/lookup, api/v3/movie/lookup
Search(query) ==
    SelectSeq(catalog, LAMBDA r : Contains(Lower(r.title), Lower(query)))

\* SonarrClient.get_episodes: GET api/v3/episode?seriesId=..[&seasonNumber=..]
GetEpisodesAllSeasons(st, series_id, season_number) ==
    LET mine == SelectSeq(episodes, LAMBDA e :
                    /\ e.seriesId = series_id
                    /\ e.seriesId \notin st.delItems)
    IN [k \in 1..Len(mine) |->
          IF mine[k].episodeFileId \in st.delFiles
          THEN [mine[k] EXCEPT !.episodeFileId = 0] ELSE mine[k]]

GetEpisodes(st, series_id, season_number) ==
    LET mine == SelectSeq(episodes, LAMBDA e :
                    /\ e.seriesId = series_id
                    /\ e.seriesId \notin st.delItems
                    /\ (season_number # None => e.seasonNumber = season_number))
    IN [k \in 1..Len(mine) |->
          IF mine[k].episodeFileId \in st.delFiles
          THEN [mine[k] EXCEPT !.episodeFileId = 0] ELSE mine[k]]

\* the episode files the backend currently holds
CurFiles(st) ==
    {e.episodeFileId : e \in {x \in Range(episodes) : x.seriesId \notin st.delItems}}
        \ (st.delFiles \cup {0})

\* SonarrClient.delete_episode_files: one DELETE per id, failures swallowed
RECURSIVE DeleteEpisodeFilesCountsAttempts(_, _, _, _)
RECURSIVE DeleteEpisodeFiles(_, _, _, _)
\* counts every id it was given
DeleteEpisodeFilesCountsAttempts(st, file_ids, faults, deleted) ==
    IF file_ids = <<>> THEN [st |-> st, deleted |-> deleted]
    ELSE LET f == Head(file_ids)
             s1 == Http(st, "delete_episode_file", f, None, faults,
                        f \notin CurFiles(st))
         IN IF s1.raised
            THEN DeleteEpisodeFilesCountsAttempts(
                     [s1 EXCEPT !.raised = FALSE, !.error = ""],
                     Tail(file_ids), faults, deleted + 1)
            ELSE DeleteEpisodeFilesCountsAttempts(
                     [s1 EXCEPT !.delFiles = @ \cup {f}],
                     Tail(file_ids), faults, deleted + 1)

DeleteEpisodeFiles(st, file_ids, faults, deleted) ==
    IF file_ids = <<>> THEN [st |-> st, deleted |-> deleted]
    ELSE LET f == Head(file_ids)
             s1 == Http(st, "delete_episode_file", f, None, faults,
                        f \notin CurFiles(st))
         IN IF s1.raised
            THEN DeleteEpisodeFiles([s1 EXCEPT !.raised = FALSE, !.error = ""],
                                    Tail(file_ids), faults, deleted)
            ELSE DeleteEpisodeFiles([s1 EXCEPT !.delFiles = @ \cup {f}],
                                    Tail(file_ids), faults, deleted + 1)

\* SonarrClient.delete_item / RadarrClient.delete_item
DeleteItem(st, item_id, faults) ==
    LET s1 == Http(st, "delete_item", item_id, None, faults,
                   item_id \notin LibraryIds(st))
    IN IF s1.raised THEN s1 ELSE [s1 EXCEPT !.delItems = @ \cup {item_id}]

\* SonarrClient.add_series / RadarrClient.add_movie
AddItem(st, op, ext_id, faults) ==
    LET s1 == Http(st, op, ext_id, None, faults, FALSE)
    IN IF s1.raised THEN s1 ELSE [s1 EXCEPT !.added = @ \cup {ext_id}]

(***************************************************************************)
(* IntentEngine.enrich, _resolve_title, _resolve_episodes                  *)
(***************************************************************************)
\* first index at which the sequence of booleans holds TRUE, 0 when none does
FirstIndex(hits) ==
    IF \E k \in 1..Len(hits) : hits[k]
    THEN CHOOSE k \in 1..Len(hits) :
            /\ hits[k]
            /\ \A j \in 1..(k - 1) : ~hits[j]
    ELSE 0

IsExact(item, title) == Lower(item.title) = Lower(title)

IsPartial(item, title) == Contains(Lower(item.title), Lower(title))

\* a single pass that takes the first listing entry matching either way
MatchIndexFirstHit(all_items, title) ==
    FirstIndex([k \in 1..Len(all_items) |->
                   IsExact(all_items[k], title) \/ IsPartial(all_items[k], title)])

\* the two loops of _resolve_title: exact match first, then partial match
MatchIndex(all_items, title) ==
    LET exact == FirstIndex([k \in 1..Len(all_items) |-> IsExact(all_items[k], title)])
        partial == FirstIndex([k \in 1..Len(all_items) |-> IsPartial(all_items[k], title)])
    IN IF exact # 0 THEN exact ELSE partial

SetLibraryIds(st, id) ==
    [st EXCEPT !.intent.item_id = id,
               !.intent.series_id =
                   IF st.intent.media_type = "tv" THEN id ELSE @]

ResolveTitle(st, client, faults) ==
    LET i == st.intent
        listing == ListingCall(client)
        s1 == IF listing # "none"
              THEN Http(st, listing, None, None, faults, FALSE) ELSE st
    IN IF s1.raised THEN s1
       ELSE LET all_items == IF listing # "none" THEN CurLibrary(s1) ELSE <<>>
                m == MatchIndex(all_items, i.title)
            IN IF m # 0 THEN SetLibraryIds(s1, all_items[m].id)
               ELSE LET s2 == Http(s1, "search", None, None, faults, FALSE)
                        search_results == Search(i.title)
                    IN IF s2.raised THEN s2
                       ELSE IF search_results = <<>> THEN Raise(s2, "ValueError")
                       ELSE IF i.media_type \in {"tv", "movie"}
                            THEN [s2 EXCEPT !.intent.item_id = search_results[1].extId]
                       ELSE s2

\* the fetched list is kept on the Intent as _episode_details, which nothing reads
ResolveEpisodes(st, faults) ==
    IF ~Truthy(st.intent.series_id) THEN st
    ELSE Http(st, "get_episodes", st.intent.series_id, st.intent.season, faults, FALSE)

EnrichRun(i, c, faults, closeBad) ==
    LET client == GetClientForMediaType(i.media_type)
    IN IF client = "ValueError" THEN Raise(NoRun(i), "ValueError")
       ELSE LET s0 == Acquired(i, c)
                s1 == IF i.title # <<>> /\ ~Truthy(i.item_id)
                      THEN ResolveTitle(s0, client, faults) ELSE s0
                s2 == IF s1.raised THEN s1
                      ELSE IF s1.intent.media_type = "tv" /\ Truthy(s1.intent.series_id)
                           THEN ResolveEpisodes(s1, faults)
                      ELSE s1
            IN Finally(s2, closeBad)

(***************************************************************************)
(* Executor                                                                *)
(***************************************************************************)
\* a failure that says nothing and carries the data of the attempt
FailSilent(msg) ==
    ExecutionResult(FALSE, "", [NoData EXCEPT !.kind = "attempt"], <<>>)

Fail(msg) == ExecutionResult(FALSE, msg, NoData, <<>>)

Ok(msg, d) == ExecutionResult(TRUE, msg, d, <<>>)

\* [ep["episodeFileId"] for ep in eps if ep.get("episodeFileId")]
FileIdsOf(eps) ==
    LET with == SelectSeq(eps, LAMBDA ep : ep.episodeFileId # 0)
    IN [k \in 1..Len(with) |-> with[k].episodeFileId]

\* "intent.season is not None"
\* tests the season for truthiness, so that season 0 counts as unset
SeasonGivenTruthy(season) == Truthy(season)

SeasonGiven(season) == season # None

RemoveTvContent(st, faults) ==
    LET i == st.intent
    IN IF ~Truthy(i.series_id)
       THEN Return(st, Fail("Could not find series in library"))
       ELSE IF i.episodes # <<>> /\ SeasonGiven(i.season)
       THEN LET s1 == Http(st, "get_episodes", i.series_id, i.season, faults, FALSE)
                all_episodes == GetEpisodes(s1, i.series_id, i.season)
                target_episodes ==
                    SelectSeq(all_episodes,
                              LAMBDA ep : ep.episodeNumber \in Range(i.episodes))
                file_ids == FileIdsOf(target_episodes)
                d == DeleteEpisodeFiles(s1, file_ids, faults, 0)
            IN IF s1.raised THEN s1
               ELSE IF target_episodes = <<>>
                    THEN Return(s1, Fail("Could not find episodes in season"))
               ELSE IF file_ids = <<>>
                    THEN Return(s1, Fail("Episodes have no files to delete"))
               ELSE Return(d.st, Ok("Removed episode file(s)",
                                    [NoData EXCEPT !.kind = "deleted",
                                                   !.deleted_count = d.deleted,
                                                   !.file_ids = file_ids]))
       ELSE IF SeasonGiven(i.season)
       THEN LET s1 == Http(st, "get_episodes", i.series_id, i.season, faults, FALSE)
                all_episodes == GetEpisodes(s1, i.series_id, i.season)
                file_ids == FileIdsOf(all_episodes)
                d == DeleteEpisodeFiles(s1, file_ids, faults, 0)
            IN IF s1.raised THEN s1
               ELSE IF file_ids = <<>>
                    THEN Return(s1, Fail("Season has no files to delete"))
               ELSE Return(d.st, Ok("Removed episode file(s)",
                                    [NoData EXCEPT !.kind = "deleted",
                                                   !.deleted_count = d.deleted]))
       ELSE LET s1 == DeleteItem(st, i.series_id, faults)
            IN IF s1.raised THEN s1
               ELSE Return(s1, Ok("Removed series and all files", NoData))

RemoveMovie(st, faults) ==
    LET i == st.intent
    IN IF ~Truthy(i.item_id)
       THEN Return(st, Fail("Could not find movie in library"))
       ELSE LET s1 == DeleteItem(st, i.item_id, faults)
            IN IF s1.raised THEN s1
               ELSE Return(s1, Ok("Removed movie and all files", NoData))

ExecuteRemove(st, faults) ==
    IF st.intent.media_type = "tv" THEN RemoveTvContent(st, faults)
    ELSE IF st.intent.media_type = "movie" THEN RemoveMovie(st, faults)
    ELSE Return(st, Fail("Remove not yet implemented"))

SearchLimit == 5

Take(seq, n) == SubSeq(seq, 1, IF Len(seq) < n THEN Len(seq) ELSE n)

IdsOf(items) == [k \in 1..Len(items) |-> items[k].id]

ExtIdsOf(results) == [k \in 1..Len(results) |-> results[k].extId]

ExecuteSearch(st, faults) ==
    LET i == st.intent
    IN IF Truthy(i.series_id) /\ i.media_type = "tv"
       THEN LET s1 == Http(st, "trigger_series_search", i.series_id, None, faults, FALSE)
            IN IF s1.raised THEN s1
               ELSE Return(s1, Ok("Triggered search",
                                  [NoData EXCEPT !.kind = "command", !.id = i.series_id]))
       ELSE IF Truthy(i.item_id) /\ i.media_type = "movie"
       THEN LET s1 == Http(st, "trigger_movie_search", i.item_id, None, faults, FALSE)
            IN IF s1.raised THEN s1
               ELSE Return(s1, Ok("Triggered search",
                                  [NoData EXCEPT !.kind = "command", !.id = i.item_id]))
       ELSE LET s1 == Http(st, "search", None, None, faults, FALSE)
                results == Search(i.title)
            IN IF s1.raised THEN s1
               ELSE Return(s1, Ok("Found result(s)",
                                  [NoData EXCEPT !.kind = "results",
                                      !.items = ExtIdsOf(Take(results, SearchLimit))]))

\* the destination check of _execute_add: "if not profiles or not root_folders"
NoDestinationIgnored(profs, roots) == FALSE

NoDestination(profs, roots) == profs = <<>> \/ roots = <<>>

ExecuteAdd(st, faults) ==
    LET i == st.intent
        s1 == Http(st, "get_quality_profiles", None, None, faults, FALSE)
        s2 == Http(s1, "get_root_folders", None, None, faults, FALSE)
        s3 == Http(s2, "search", None, None, faults, FALSE)
        results == Search(i.title)
        s4 == AddItem(s3, IF i.media_type = "tv" THEN "add_series" ELSE "add_movie",
                      results[1].extId, faults)
    IN IF s1.raised THEN s1
       ELSE IF s2.raised THEN s2
       ELSE IF NoDestination(profiles, rootFolders)
            THEN Return(s2, Fail("No quality profiles or root folders configured"))
       ELSE IF i.media_type \in {"tv", "movie"}
            THEN IF s3.raised THEN s3
                 ELSE IF results = <<>> THEN Return(s3, Fail("Could not find title to add"))
                 ELSE IF s4.raised THEN s4
                 ELSE Return(s4, Ok("Added to library",
                                    [NoData EXCEPT !.kind = "added",
                                                   !.id = results[1].extId]))
       ELSE Return(s2, Fail("Add not yet implemented"))

ExecuteList(st, faults) ==
    LET i == st.intent
        s1 == Http(st, ListingCall(OwnerOf(i.media_type)), None, None, faults, FALSE)
    IN IF i.media_type \in {"tv", "movie"}
       THEN IF s1.raised THEN s1
            ELSE Return(s1, Ok("Found item(s)",
                               [NoData EXCEPT !.kind = "titles",
                                              !.items = IdsOf(CurLibrary(s1))]))
       ELSE Return(st, Fail("List not yet implemented"))

ExecuteInfo(st, faults) ==
    LET i == st.intent
        s1 == Http(st, "get_item", i.item_id, None, faults,
                   i.item_id \notin LibraryIds(st))
    IN IF ~Truthy(i.item_id) THEN Return(st, Fail("Could not find title in library"))
       ELSE IF s1.raised THEN s1
       ELSE Return(s1, Ok("Details", [NoData EXCEPT !.kind = "item", !.id = i.item_id]))

\* the except clause of Executor.execute
\* leaves a failure of close() to the caller
ExecutionFailedInsideOnly(st) ==
    IF st.error = "CloseError" THEN st
    ELSE [st EXCEPT !.res = ExecutionResult(FALSE, "Execution failed", NoData,
                                            <<st.error>>),
                    !.raised = FALSE]

ExecutionFailed(st) ==
    [st EXCEPT !.res = ExecutionResult(FALSE, "Execution failed", NoData, <<st.error>>),
               !.raised = FALSE]

\* raises for an action without a handler
DispatchRaises(st, faults) ==
    LET a == st.intent.action
    IN IF a \in {"remove", "delete"} THEN ExecuteRemove(st, faults)
       ELSE IF a = "search" THEN ExecuteSearch(st, faults)
       ELSE IF a = "add" THEN ExecuteAdd(st, faults)
       ELSE IF a = "list" THEN ExecuteList(st, faults)
       ELSE IF a = "info" THEN ExecuteInfo(st, faults)
       ELSE Raise(st, "NotImplementedError")

Dispatch(st, faults) ==
    LET a == st.intent.action
    IN IF a \in {"remove", "delete"} THEN ExecuteRemove(st, faults)
       ELSE IF a = "search" THEN ExecuteSearch(st, faults)
       ELSE IF a = "add" THEN ExecuteAdd(st, faults)
       ELSE IF a = "list" THEN ExecuteList(st, faults)
       ELSE IF a = "info" THEN ExecuteInfo(st, faults)
       ELSE Return(st, Fail("Action not yet implemented"))

ExecuteRun(i, c, faults, closeBad) ==
    LET client == GetClientForMediaType(i.media_type)
    IN IF client = "ValueError" THEN ExecutionFailed(Raise(NoRun(i), "ValueError"))
       ELSE LET s1 == Finally(Dispatch(Acquired(i, c), faults), closeBad)
            IN IF s1.raised THEN ExecutionFailed(s1) ELSE s1

(***************************************************************************)
(* CommandParser.parse                                                     *)
(***************************************************************************)
\* what the extraction capability hands back: an error / no tool call, or arguments
LlmError == [kind |-> "error", args |-> NoIntent]

\* the provider got an answer without a tool call and raises ValueError
LlmNoToolCall == [kind |-> "no_tool_call", args |-> NoIntent]

\* no extraction has taken place
NoExtraction == [kind |-> "none", args |-> NoIntent]

LlmArgs(a) == [kind |-> "args", args |-> a]

\* Intent(**parsed_data): pydantic rejects values outside the enums
FitsIntent(args) == args.action \in ActionType /\ args.media_type \in MediaType

\* hands the arguments on without constructing the Intent from them
ParseCommandUnchecked(llm) ==
    IF llm.kind \in {"error", "no_tool_call"} THEN [ok |-> FALSE, intent |-> NoIntent]
    ELSE [ok |-> TRUE, intent |-> llm.args]

ParseCommand(llm) ==
    IF llm.kind \in {"error", "no_tool_call"} THEN [ok |-> FALSE, intent |-> NoIntent]
    ELSE IF ~FitsIntent(llm.args) THEN [ok |-> FALSE, intent |-> NoIntent]
    ELSE [ok |-> TRUE, intent |-> llm.args]

(***************************************************************************)
(* The entry points: interfaces/api/app.py execute_command,                *)
(* interfaces/cli/main.py _execute_command,                                *)
(* interfaces/web/routes.py execute_command                                *)
(***************************************************************************)
EntryPoints == {"api", "cli", "web"}

\* only the REST request body and the CLI option carry dry_run
HasDryRun(e) == e \in {"api", "cli"}

Tag(calls, by) ==
    [k \in 1..Len(calls) |->
        [op |-> calls[k].op, c |-> calls[k].c, id |-> calls[k].id,
         arg |-> calls[k].arg, raised |-> calls[k].raised, by |-> by]]

\* every get_client_for_media_type call constructs a new adapter instance
NextAdapter == Cardinality({k \in 1..Len(log) : log[k].op = "acquire"}) + 1

\* "if errors:" in the entry points
RejectsNever(errs) == FALSE

Rejects(errs) == errs # <<>>

\* "if request.dry_run:" / "if dry_run:" after parse
\* goes on with the pipeline whatever the flag says
DryRunIgnored(dry) == FALSE

DryRun(dry) == dry

Finish(how, code) ==
    /\ pc' = "done"
    /\ outcome' = how
    /\ status' = IF entry' = "api" THEN code ELSE 0

ParseRequest(e, dry, llm) ==
    /\ dry => HasDryRun(e)
    /\ entry' = e
    /\ dry_run' = dry
    /\ LET r == ParseCommand(llm)
       IN /\ intent' = r.intent
          /\ parsed' = r.intent
          /\ extracted' = llm
          /\ IF ~r.ok THEN Finish("parse_error", 400)
             ELSE IF DryRun(dry) THEN Finish("dry_run", 200)
             ELSE /\ pc' = "parsed"
                  /\ UNCHANGED <<outcome, status>>
    /\ UNCHANGED <<settings, concurrentVars, authVars, webVars, backendVars, effectVars, sweepVars,
                   errors, execArg, result, log>>

\* the transport faults a run can meet: any of the requests it makes may fail,
\* and closing can only fail once a request has opened the httpx client
FaultChoices(n) == SUBSET (1..n)

CloseChoices(n) == IF n > 0 THEN BOOLEAN ELSE {FALSE}

Enrich ==
    /\ pc = "parsed"
    /\ \E faults \in FaultChoices(EnrichRun(intent, NextAdapter, {}, FALSE).n) :
       \E closeBad \in CloseChoices(EnrichRun(intent, NextAdapter, faults, FALSE).n) :
         LET r == EnrichRun(intent, NextAdapter, faults, closeBad)
         IN /\ intent' = r.intent
            /\ log' = log \o Tag(r.calls, "enrich")
            /\ UNCHANGED entry
            /\ IF r.raised
               THEN Finish("enrich_error", IF r.error = "ValueError" THEN 400 ELSE 500)
               ELSE /\ pc' = "enriched"
                    /\ UNCHANGED <<outcome, status>>
    /\ UNCHANGED <<settings, concurrentVars, authVars, webVars, backendVars, effectVars, sweepVars,
                   dry_run, extracted, parsed, errors, execArg, result>>

\* the REST handler raises HTTPException(400) inside its own try block, where
\* "except Exception" turns it into a 500
ValidateStep ==
    /\ pc = "enriched"
    /\ errors' = Validate(intent)
    /\ UNCHANGED entry
    /\ IF Rejects(errors') THEN Finish("validation_failed", 500)
       ELSE /\ pc' = "validated"
            /\ UNCHANGED <<outcome, status>>
    /\ UNCHANGED <<settings, concurrentVars, authVars, webVars, backendVars, effectVars, sweepVars,
                   dry_run, intent, extracted, parsed, execArg, result, log>>

Execute ==
    /\ pc = "validated"
    /\ execArg' = intent
    /\ \E faults \in FaultChoices(ExecuteRun(intent, NextAdapter, {}, FALSE).n) :
       \E closeBad \in CloseChoices(ExecuteRun(intent, NextAdapter, faults, FALSE).n) :
         LET r == ExecuteRun(intent, NextAdapter, faults, closeBad)
         IN /\ result' = r.res
            /\ log' = log \o Tag(r.calls, "execute")
            /\ deletedFiles' = r.delFiles
            /\ deletedItems' = r.delItems
            /\ added' = r.added
            /\ UNCHANGED entry
            /\ IF r.raised THEN Finish("execute_raised", 500)
               ELSE Finish("executed", 200)
    /\ UNCHANGED <<settings, concurrentVars, authVars, webVars, backendVars, sweepVars,
                   dry_run, intent, extracted, parsed, errors>>

(***************************************************************************)
(* clients/discovery.py: discover_services                                 *)
(***************************************************************************)
Backends == <<"sonarr", "radarr", "lidarr", "readarr", "whisparr", "bazarr",
              "audiobookshelf", "lazylibrarian", "huntarr", "plex">>

BackendNames == Range(Backends)

\* the blocks that wrap the version fetch in its own try/except
VersionGuarded == {"audiobookshelf", "lazylibrarian", "huntarr", "plex"}

Absent == [present |-> FALSE, available |-> FALSE, version |-> "none"]

ServiceInfo(available, version) ==
    [present |-> TRUE, available |-> available, version |-> version]

\* what a probe can meet: test_connection fails or times out ("down"), it
\* succeeds and the version fetch succeeds ("up"), or it succeeds and the
\* version fetch raises ("up_version_raises")
ProbeOutcomes == {"down", "up", "up_version_raises"}

NoProbe == [probe |-> "none", closeBad |-> FALSE]

\* a block without its "except Exception" clause
ProbeBlockUncaught(b, probe) ==
    IF probe = "down" THEN [info |-> ServiceInfo(FALSE, "none"), raised |-> FALSE]
    ELSE IF probe = "up" THEN [info |-> ServiceInfo(TRUE, "v"), raised |-> FALSE]
    ELSE IF b \in VersionGuarded
         THEN [info |-> ServiceInfo(TRUE, "none"), raised |-> FALSE]
    ELSE [info |-> Absent, raised |-> TRUE]

\* the try/except of one backend block: the entry it stores in services and
\* whether an exception leaves the block
ProbeBlock(b, probe) ==
    IF probe = "down" THEN [info |-> ServiceInfo(FALSE, "none"), raised |-> FALSE]
    ELSE IF probe = "up" THEN [info |-> ServiceInfo(TRUE, "v"), raised |-> FALSE]
    ELSE IF b \in VersionGuarded
         THEN [info |-> ServiceInfo(TRUE, "none"), raised |-> FALSE]
    ELSE [info |-> ServiceInfo(FALSE, "none"), raised |-> FALSE]

\* index of the first configured backend block at or after k, Len(Backends) + 1 if none
RECURSIVE NextConfigured(_)
NextConfigured(k) ==
    IF k > Len(Backends) THEN k
    ELSE IF Configured(Backends[k]) THEN k
    ELSE NextConfigured(k + 1)

DiscoverStart ==
    /\ sweep = "idle"
    /\ sweep' = "running"
    /\ services' = [b \in BackendNames |-> Absent]
    /\ cursor' = NextConfigured(1)
    /\ started' = {}
    /\ UNCHANGED <<settings, concurrentVars, authVars, webVars, backendVars, effectVars, requestVars, probes, prompt>>

\* the block at the cursor constructs its client and awaits test_connection
DiscoverProbe ==
    /\ sweep = "running"
    /\ cursor <= Len(Backends)
    /\ Backends[cursor] \notin started
    /\ started' = started \cup {Backends[cursor]}
    /\ UNCHANGED <<settings, concurrentVars, authVars, webVars, backendVars, effectVars, requestVars,
                   services, cursor, sweep, probes, prompt>>

\* the awaited probe of the block settles: store the entry, release the client
DiscoverBlock ==
    /\ sweep = "running"
    /\ cursor <= Len(Backends)
    /\ Backends[cursor] \in started
    /\ \E probe \in ProbeOutcomes, closeBad \in BOOLEAN :
         LET b == Backends[cursor]
             r == ProbeBlock(b, probe)
         IN /\ probes' = [probes EXCEPT ![b] = [probe |-> probe, closeBad |-> closeBad]]
            /\ services' = [services EXCEPT ![b] = r.info]
            /\ IF r.raised \/ closeBad
               THEN /\ sweep' = "raised"
                    /\ UNCHANGED cursor
               ELSE /\ cursor' = NextConfigured(cursor + 1)
                    /\ UNCHANGED sweep
    /\ UNCHANGED <<settings, concurrentVars, authVars, webVars, backendVars, effectVars, requestVars, started, prompt>>

DiscoverReturn ==
    /\ sweep = "running"
    /\ cursor > Len(Backends)
    /\ sweep' = "returned"
    /\ UNCHANGED <<settings, concurrentVars, authVars, webVars, backendVars, effectVars, requestVars,
                   services, cursor, probes, started, prompt>>

(***************************************************************************)
(* llm/schemas.py: the service context of the system prompt, as the        *)
(* startup of the REST application and get_parser of the web UI build it   *)
(***************************************************************************)
\* an Optional[List[str]]: None, or a list of service names
NoList == [known |-> FALSE, names |-> <<>>]

ListOf(names) == [known |-> TRUE, names |-> names]

\* "available or None"
OrNone(names) == IF names = <<>> THEN NoList ELSE ListOf(names)

\* [name for name, info in services.items() if info.available]
AvailableNames ==
    SelectSeq(Backends, LAMBDA b : services[b].present /\ services[b].available)

\* the empty string
NoContext == [header |-> FALSE, listed |-> <<>>, missing |-> {}]

\* _build_service_context: the listed services and the "Not available" flags
BuildServiceContext(available_services) ==
    IF ~available_services.known \/ available_services.names = <<>>
    THEN NoContext
    ELSE [header |-> TRUE,
          listed |-> available_services.names,
          missing |->
              (IF "sonarr" \notin Range(available_services.names) THEN {"tv"} ELSE {})
              \cup
              (IF "radarr" \notin Range(available_services.names) THEN {"movie"} ELSE {})]

NoPrompt == [built |-> FALSE, context |-> NoContext]

\* startup_event after discover_services has returned
StartupEvent ==
    /\ sweep = "returned"
    /\ ~prompt.built
    /\ prompt' = [built |-> TRUE,
                  context |-> BuildServiceContext(OrNone(AvailableNames))]
    /\ UNCHANGED <<settings, concurrentVars, authVars, webVars, backendVars, effectVars, requestVars,
                   services, cursor, sweep, probes, started>>

(***************************************************************************)
(* Concurrent requests: the awaits of enrich and execute are the points    *)
(* at which the event loop switches between requests.  Each request parses *)
(* its command, then acquires, uses and releases an adapter in enrich and  *)
(* again in execute.                                                       *)
(***************************************************************************)
MaxRequests == 2

Requests == 1..MaxRequests

Arrived(m) ==
    [pc |-> "arrived", media_type |-> m, intent |-> 0, adapter |-> 0,
     called |-> FALSE, enrichAdapter |-> 0, executeAdapter |-> 0]

NoRequests ==
    /\ rq = [r \in Requests |-> Arrived("none")]
    /\ adapters = <<>>

\* Intent(**parsed_data) constructs a new object on every parse
NewIntent == Cardinality({r \in Requests : rq[r].intent # 0}) + 1

\* index in the pool of the adapter get_client_for_media_type returns
\* keeps one instance per backend and hands it to every caller
AdapterForCached(pool, b) ==
    IF \E k \in 1..Len(pool) : pool[k].backend = b
    THEN CHOOSE k \in 1..Len(pool) : pool[k].backend = b
    ELSE Len(pool) + 1

AdapterFor(pool, b) == Len(pool) + 1

\* BaseMediaClient.__init__: no httpx client yet
NewAdapter(b, r) ==
    [backend |-> b, http |-> "none", closed |-> FALSE, acquisitions |-> 1,
     inUseBy |-> {r}]

RequestParse(r) ==
    /\ rq[r].pc = "arrived"
    /\ rq' = [rq EXCEPT ![r].pc = "parsed", ![r].intent = NewIntent]
    /\ UNCHANGED <<settings, backendVars, effectVars, requestVars, sweepVars,
                   adapters, authVars, webVars>>

\* client = get_client_for_media_type(intent.media_type.value), in enrich and
\* in execute
AcquireAdapter(r) ==
    /\ rq[r].pc \in {"parsed", "enriched"}
    /\ GetClientForMediaType(rq[r].media_type) # "ValueError"
    /\ LET b == GetClientForMediaType(rq[r].media_type)
           a == AdapterFor(adapters, b)
           enriching == rq[r].pc = "parsed"
       IN /\ adapters' =
                 IF a > Len(adapters) THEN Append(adapters, NewAdapter(b, r))
                 ELSE [adapters EXCEPT ![a].acquisitions = @ + 1,
                                       ![a].inUseBy = @ \cup {r}]
          /\ rq' = [rq EXCEPT
                       ![r].pc = IF enriching THEN "enriching" ELSE "executing",
                       ![r].adapter = a,
                       ![r].called = FALSE,
                       ![r].enrichAdapter = IF enriching THEN a ELSE @,
                       ![r].executeAdapter = IF enriching THEN @ ELSE a]
    /\ UNCHANGED <<settings, backendVars, effectVars, requestVars, sweepVars,
                   authVars, webVars>>

\* an awaited backend call of the request: the client property opens the
\* httpx client on first use
AdapterCall(r) ==
    /\ rq[r].pc \in {"enriching", "executing"}
    /\ ~rq[r].called
    /\ adapters' = [adapters EXCEPT ![rq[r].adapter].http = "open"]
    /\ rq' = [rq EXCEPT ![r].called = TRUE]
    /\ UNCHANGED <<settings, backendVars, effectVars, requestVars, sweepVars,
                   authVars, webVars>>

\* finally: await client.close()
ReleaseAdapter(r) ==
    /\ rq[r].pc \in {"enriching", "executing"}
    /\ adapters' = [adapters EXCEPT ![rq[r].adapter].http = "none",
                                    ![rq[r].adapter].closed = TRUE,
                                    ![rq[r].adapter].inUseBy = @ \ {r}]
    /\ rq' = [rq EXCEPT ![r].pc = IF @ = "enriching" THEN "enriched" ELSE "done",
                        ![r].adapter = 0]
    /\ UNCHANGED <<settings, backendVars, effectVars, requestVars, sweepVars,
                   authVars, webVars>>

(***************************************************************************)
(* auth/manager.py: the credential store.  A key missing from the JSON     *)
(* object and a falsy value read the same way through data.get(...), so a  *)
(* missing username or hash is "" / NoHash and a missing flag is FALSE.    *)
(* Failures of the file system are outside this model.                     *)
(***************************************************************************)
Usernames == {"alice", "bob"}

Passwords == {"pass", "word"}

\* bcrypt.hash / bcrypt.verify
NoHash == [alg |-> "none", of |-> ""]

Hash(password) == [alg |-> "bcrypt", of |-> password]

HashVerify(password, hash) == hash.alg = "bcrypt" /\ hash.of = password

NoFile == [file |-> FALSE, username |-> "", password_hash |-> NoHash, enabled |-> FALSE]

\* _read: {} when the file does not exist
Read(st) == IF st.file THEN st ELSE NoFile

\* _write: the file is replaced atomically
Write(data) == [data EXCEPT !.file = TRUE]

HasCredentials(st) == Read(st).username # ""

IsAuthRequired(st) == Read(st).username # "" /\ Read(st).enabled

IsEnabled(st) == Read(st).enabled

\* leaves the enabled flag as it finds it
SetCredentialsKeepsFlag(st, username, password) ==
    Write([Read(st) EXCEPT !.username = username,
                           !.password_hash = Hash(password)])

SetCredentials(st, username, password) ==
    Write([Read(st) EXCEPT !.username = username,
                           !.password_hash = Hash(password),
                           !.enabled = TRUE])

VerifyCredentials(st, username, password) ==
    LET data == Read(st)
    IN IF data.username = "" \/ data.password_hash = NoHash THEN FALSE
       ELSE IF username # data.username THEN FALSE
       ELSE HashVerify(password, data.password_hash)

\* the store after the call and whether the call raised ValueError
Enable(st) ==
    IF Read(st).username = "" THEN [store |-> st, raised |-> TRUE]
    ELSE [store |-> Write([Read(st) EXCEPT !.enabled = TRUE]), raised |-> FALSE]

Disable(st) == Write([Read(st) EXCEPT !.enabled = FALSE])

Delete(st) == NoFile

(***************************************************************************)
(* auth/session.py, auth/dependencies.py: session tokens and require_auth  *)
(***************************************************************************)
\* get_secret_key: one key for the life of the process
SecretKey == "k"

NoToken == [user |-> "", key |-> "", expired |-> FALSE]

CreateSessionToken(username, secret_key) ==
    [user |-> username, key |-> secret_key, expired |-> FALSE]

\* the user of the token, "" (None) when the signature or the age is wrong
ValidateSessionToken(token, secret_key) ==
    IF token.key = secret_key /\ ~token.expired THEN token.user ELSE ""

\* tokens signed with a key that is not the server's
Forged == {CreateSessionToken(u, "x") : u \in Usernames}

\* what a request can carry in its session cookie
Cookies == tokens \cup Forged \cup {NoToken}

\* require_auth: TRUE when the request is let through
RequireAuth(st, token) ==
    IF ~IsAuthRequired(st) THEN TRUE
    ELSE IF token # NoToken /\ ValidateSessionToken(token, SecretKey) # "" THEN TRUE
    ELSE FALSE

NoOp == [op |-> "none", before |-> NoFile, raised |-> FALSE]

Op(name, raised) == [op |-> name, before |-> store, raised |-> raised]

NoVisit == [cookie |-> NoToken, required |-> FALSE, stored |-> "", admitted |-> FALSE]

NoAuth ==
    /\ store = NoFile
    /\ authOp = NoOp
    /\ tokens = {}
    /\ visit = NoVisit

\* the form values auth_set accepts: a non-blank username, a password of at
\* least 4 characters, typed twice
PasswordLength(password) == IF password = "abc" THEN 3 ELSE 4

FormError(username, password, password_confirm) ==
    username = "" \/ PasswordLength(password) < 4 \/ password # password_confirm

\* POST /web/settings/auth/set
AuthSet(cookie, username, password, password_confirm) ==
    /\ RequireAuth(store, cookie)
    /\ IF FormError(username, password, password_confirm)
       THEN UNCHANGED <<store, authOp, tokens>>
       ELSE /\ store' = SetCredentials(store, username, password)
            /\ authOp' = Op("set_credentials", FALSE)
            /\ tokens' = tokens \cup {CreateSessionToken(username, SecretKey)}
    /\ UNCHANGED <<settings, backendVars, effectVars, requestVars, sweepVars,
                   concurrentVars, visit, webVars>>

\* POST /web/settings/auth/enable
AuthEnable(cookie) ==
    /\ RequireAuth(store, cookie)
    /\ LET r == Enable(store)
       IN /\ store' = r.store
          /\ authOp' = Op("enable", r.raised)
          /\ tokens' = IF ~r.raised /\ Read(r.store).username # ""
                       THEN tokens \cup {CreateSessionToken(Read(r.store).username,
                                                            SecretKey)}
                       ELSE tokens
    /\ UNCHANGED <<settings, backendVars, effectVars, requestVars, sweepVars,
                   concurrentVars, visit, webVars>>

\* POST /web/settings/auth/disable
AuthDisable(cookie) ==
    /\ RequireAuth(store, cookie)
    /\ store' = Disable(store)
    /\ authOp' = Op("disable", FALSE)
    /\ UNCHANGED <<settings, backendVars, effectVars, requestVars, sweepVars,
                   concurrentVars, tokens, visit, webVars>>

\* POST /web/settings/auth/delete
AuthDelete(cookie) ==
    /\ RequireAuth(store, cookie)
    /\ store' = Delete(store)
    /\ authOp' = Op("delete", FALSE)
    /\ UNCHANGED <<settings, backendVars, effectVars, requestVars, sweepVars,
                   concurrentVars, tokens, visit, webVars>>

\* POST /web/login
LoginSubmit(username, password) ==
    /\ VerifyCredentials(store, username, password)
    /\ tokens' = tokens \cup {CreateSessionToken(username, SecretKey)}
    /\ UNCHANGED <<settings, backendVars, effectVars, requestVars, sweepVars,
                   concurrentVars, store, authOp, visit, webVars>>

\* a token passes SESSION_MAX_AGE
ExpireToken(token) ==
    /\ token \in tokens
    /\ ~token.expired
    /\ tokens' = (tokens \ {token}) \cup {[token EXCEPT !.expired = TRUE]}
    /\ UNCHANGED <<settings, backendVars, effectVars, requestVars, sweepVars,
                   concurrentVars, store, authOp, visit, webVars>>

\* a request to a route of the protected router
VisitProtected(cookie) ==
    /\ visit' = [cookie |-> cookie,
                 required |-> IsAuthRequired(store),
                 stored |-> Read(store).username,
                 admitted |-> RequireAuth(store, cookie)]
    /\ UNCHANGED <<settings, backendVars, effectVars, requestVars, sweepVars,
                   concurrentVars, store, authOp, tokens, webVars>>

(***************************************************************************)
(* interfaces/web/routes.py: get_parser.  The await of discover_services   *)
(* is the point at which the event loop can run another request.           *)
(***************************************************************************)
MaxCallers == 3

Callers == 1..MaxCallers

\* the backends whose availability shapes the prompt
PromptBackends == <<"sonarr", "radarr">>

NoCaller == [pc |-> "idle", got |-> 0]

NoWeb ==
    /\ parser = 0
    /\ parsers = <<>>
    /\ callers = [c \in Callers |-> NoCaller]

\* get_parser up to its await: the global is set, or the sweep is started
GetParserEnter(c) ==
    /\ callers[c].pc = "idle"
    /\ callers' = [callers EXCEPT ![c] =
                      IF parser = 0 THEN [pc |-> "sweeping", got |-> 0]
                      ELSE [pc |-> "returned", got |-> parser]]
    /\ UNCHANGED <<settings, backendVars, effectVars, requestVars, sweepVars,
                   concurrentVars, authVars, parser, parsers>>

\* discover_services has returned to the caller: construct, assign, return
GetParserResume(c) ==
    /\ callers[c].pc = "sweeping"
    /\ \E names \in {SelectSeq(PromptBackends, LAMBDA b : b \in up) :
                        up \in SUBSET Range(PromptBackends)} :
          /\ parsers' = Append(parsers, BuildServiceContext(OrNone(names)))
          /\ parser' = Len(parsers) + 1
          /\ callers' = [callers EXCEPT ![c] =
                            [pc |-> "returned", got |-> Len(parsers) + 1]]
    /\ UNCHANGED <<settings, backendVars, effectVars, requestVars, sweepVars,
                   concurrentVars, authVars>>

(***************************************************************************)
(* Inputs                                                                  *)
(***************************************************************************)
Both == [url |-> TRUE, key |-> TRUE]
Neither == [url |-> FALSE, key |-> FALSE]
UrlOnly == [url |-> TRUE, key |-> FALSE]
KeyOnly == [url |-> FALSE, key |-> TRUE]

AllConfigured == [b \in BackendNames |-> Both]

\* every backend configured, except for at most MaxUnconfigured media backends
SomeUnconfigured ==
    {[b \in BackendNames |-> IF b \in off THEN Neither ELSE Both] :
        off \in {x \in SUBSET MediaBackends : Cardinality(x) <= MaxUnconfigured}}

\* at most MaxConfigured backends configured
FewConfigured ==
    {[b \in BackendNames |-> IF b \in on THEN Both ELSE Neither] :
        on \in {x \in SUBSET BackendNames : Cardinality(x) <= MaxConfigured}}

Seasons == 0..MaxSeason

\* the ordered sets of episode numbers
EpisodeLists ==
    {e \in SeqsUpTo(1..MaxEpisode, MaxEpisode) :
        \A j \in 1..Len(e), k \in 1..Len(e) : j < k => e[j] < e[k]}

Item(id, title) == [id |-> id, title |-> title]

CatalogEntry(extId, title) == [extId |-> extId, title |-> title]

Episode(series, season, number, file) ==
    [seriesId |-> series, seasonNumber |-> season, episodeNumber |-> number,
     episodeFileId |-> file]

\* file id of the episode file of (series, season, number)
FileOf(series, season, number) == 100 * series + 10 * season + number

\* "a" is the exact title of the second library item and a substring of the
\* first; "bb" is only in the catalog
PipelineTitles == {<<>>, <<"a">>, <<"b", "b">>}

PipelineLibrary == <<Item(1, <<"a", "b">>), Item(2, <<"A">>)>>

PipelineCatalog ==
    <<CatalogEntry(2, <<"b", "b">>), CatalogEntry(7, <<"a", "b">>)>>

PipelineEpisodes ==
    <<Episode(2, 0, 1, FileOf(2, 0, 1)),
      Episode(2, 1, 1, FileOf(2, 1, 1)),
      Episode(2, 1, 2, 0),
      Episode(1, 1, 1, FileOf(1, 1, 1))>>

\* arguments outside the extraction schema: an action no enum knows
LlmStray == LlmArgs(Intent("play", "tv", <<"a">>, None, <<>>))

\* arguments that carry identifier fields next to the schema's properties
LlmWithIds ==
    {LlmArgs([Intent(a, m, t, None, <<>>) EXCEPT !.item_id = 1, !.series_id = 1]) :
        a \in {"remove", "info"}, m \in {"tv", "movie"}, t \in PipelineTitles}

LlmOutcomes ==
    {LlmError, LlmNoToolCall, LlmStray} \cup LlmWithIds \cup
    {LlmArgs(Intent(a, m, t, s, e)) :
        a \in SchemaActions, m \in SchemaMediaTypes, t \in PipelineTitles,
        s \in {None} \cup Seasons, e \in EpisodeLists}

IdleRequest ==
    /\ pc = "idle"
    /\ entry = "none"
    /\ dry_run = FALSE
    /\ intent = NoIntent
    /\ extracted = NoExtraction
    /\ parsed = NoIntent
    /\ errors = <<>>
    /\ execArg = NoIntent
    /\ result = NoResult
    /\ outcome = "none"
    /\ status = 0
    /\ log = <<>>

NoEffects ==
    /\ deletedFiles = {}
    /\ deletedItems = {}
    /\ added = {}

NoSweep ==
    /\ services = [b \in BackendNames |-> Absent]
    /\ cursor = 1
    /\ sweep = "idle"
    /\ probes = [b \in BackendNames |-> NoProbe]
    /\ started = {}
    /\ prompt = NoPrompt

PipelineBackend ==
    /\ library = PipelineLibrary
    /\ catalog = PipelineCatalog
    /\ episodes = PipelineEpisodes
    /\ profiles = <<1>>
    /\ rootFolders = <<1>>

(***************************************************************************)
(* The request pipeline                                                    *)
(***************************************************************************)
\* a request arrives at one of the entry points and is parsed
Parse ==
    /\ pc = "idle"
    /\ \E e \in EntryPoints, dry \in BOOLEAN, llm \in LlmOutcomes :
          ParseRequest(e, dry, llm)

Init ==
    /\ settings \in SomeUnconfigured
    /\ PipelineBackend
    /\ NoEffects
    /\ IdleRequest
    /\ NoSweep
    /\ NoRequests
    /\ NoAuth
    /\ NoWeb

Next ==
    \/ Parse
    \/ Enrich
    \/ ValidateStep
    \/ Execute

Spec == Init /\ [][Next]_vars

(***************************************************************************)
(* IntentEngine.enrich called on its own, over every small library         *)
(***************************************************************************)
\* the titles asked for
Queries == {<<"a">>, <<"A">>, <<"b">>}

\* the titles a listing can hold: each query has titles that equal it up to
\* case, titles that only contain it, and titles without it
LibraryTitles == {<<"a">>, <<"A">>, <<"b">>, <<"a", "b">>, <<"b", "A">>}

\* listings of up to MaxLib items; the item at position k has id k
Libraries ==
    {[k \in 1..Len(ts) |-> Item(k, ts[k])] : ts \in SeqsUpTo(LibraryTitles, MaxLib)}

DirectCall(position) ==
    /\ pc = position
    /\ entry = "none"
    /\ dry_run = FALSE
    /\ extracted = NoExtraction
    /\ parsed = intent
    /\ errors = <<>>
    /\ execArg = NoIntent
    /\ result = NoResult
    /\ outcome = "none"
    /\ status = 0
    /\ log = <<>>

InitEnrich ==
    /\ settings = AllConfigured
    /\ intent \in {Intent("search", m, t, s, <<>>) :
                      m \in MediaType, t \in Queries \cup {<<>>}, s \in {None, MaxSeason}}
    /\ library \in IF /\ intent.media_type \in {"tv", "movie"}
                      /\ intent.title # <<>>
                      /\ intent.season = None
                   THEN Libraries ELSE {PipelineLibrary}
    /\ catalog \in IF library \in {PipelineLibrary, <<>>}
                   THEN {<<>>, PipelineCatalog} ELSE {PipelineCatalog}
    /\ episodes = PipelineEpisodes
    /\ profiles = <<1>>
    /\ rootFolders = <<1>>
    /\ NoEffects
    /\ DirectCall("parsed")
    /\ NoSweep
    /\ NoRequests
    /\ NoAuth
    /\ NoWeb

NextEnrich == Enrich

SpecEnrich == InitEnrich /\ [][NextEnrich]_vars

(***************************************************************************)
(* Executor.execute called on its own with an enriched Intent              *)
(***************************************************************************)
\* the identifiers enrichment can have left on the Intent: none, a library
\* match (TV sets both, movie only item_id), a catalog identifier
EnrichedIds == {<<None, None>>, <<2, 2>>, <<2, None>>, <<7, None>>}

ExecTitles == {<<>>, <<"a">>, <<"A", "A">>}

ExecIntents ==
    {[Intent(a, m, t, s, e) EXCEPT !.item_id = ids[1], !.series_id = ids[2]] :
        a \in ActionType, m \in MediaType, t \in ExecTitles,
        s \in {None} \cup Seasons, e \in EpisodeLists, ids \in EnrichedIds}

\* how one episode slot of the season under test can look: no such episode, an
\* episode without a file, one with its own file, or one stored in the same
\* file as the first episode of the season (a multi-episode file)
SlotStates == {"absent", "nofile", "file", "shared"}

SlotFile(series, season, number, slots) ==
    IF slots[number] = "nofile" THEN 0
    ELSE IF slots[number] = "shared" /\ slots[1] = "file" THEN FileOf(series, season, 1)
    ELSE FileOf(series, season, number)

\* series 2 with every season complete except the given one, whose slots are
\* as given; one episode of series 1
EpisodeTable(season, slots) ==
    LET all == [k \in 1..((MaxSeason + 1) * MaxEpisode) |->
                   [s |-> (k - 1) \div MaxEpisode, n |-> ((k - 1) % MaxEpisode) + 1]]
        kept == SelectSeq(all, LAMBDA x : x.s # season \/ slots[x.n] # "absent")
    IN [k \in 1..Len(kept) |->
           IF kept[k].s = season
           THEN Episode(2, kept[k].s, kept[k].n, SlotFile(2, season, kept[k].n, slots))
           ELSE Episode(2, kept[k].s, kept[k].n, FileOf(2, kept[k].s, kept[k].n))]
       \o <<Episode(1, 1, 1, FileOf(1, 1, 1))>>

EpisodeTables(season) ==
    {EpisodeTable(season, slots) : slots \in [1..MaxEpisode -> SlotStates]}

IsTvRemove(i) == i.media_type = "tv" /\ i.action \in {"remove", "delete"}

InitExec ==
    /\ intent \in ExecIntents
    /\ settings \in {AllConfigured} \cup
                    {[AllConfigured EXCEPT ![OwnerOf(intent.media_type)] = c] :
                        c \in {Neither, UrlOnly, KeyOnly}}
    /\ library = PipelineLibrary
    /\ catalog = PipelineCatalog
    /\ episodes \in IF IsTvRemove(intent) /\ intent.series_id = 2 /\ intent.season # None
                    THEN EpisodeTables(intent.season) ELSE {PipelineEpisodes}
    /\ profiles \in IF intent.action = "add" THEN {<<>>, <<1>>} ELSE {<<1>>}
    /\ rootFolders \in IF intent.action = "add" THEN {<<>>, <<1>>} ELSE {<<1>>}
    /\ NoEffects
    /\ DirectCall("validated")
    /\ NoSweep
    /\ NoRequests
    /\ NoAuth
    /\ NoWeb

NextExec == Execute

SpecExec == InitExec /\ [][NextExec]_vars

(***************************************************************************)
(* The discovery sweep                                                     *)
(***************************************************************************)
InitDiscover ==
    /\ settings \in FewConfigured
    /\ PipelineBackend
    /\ NoEffects
    /\ IdleRequest
    /\ NoSweep
    /\ NoRequests
    /\ NoAuth
    /\ NoWeb

NextDiscover ==
    \/ DiscoverStart
    \/ DiscoverProbe
    \/ DiscoverBlock
    \/ DiscoverReturn
    \/ StartupEvent

SpecDiscover == InitDiscover /\ [][NextDiscover]_vars

TypeOK ==
    /\ pc \in {"idle", "parsed", "enriched", "validated", "done"}
    /\ entry \in EntryPoints \cup {"none"}
    /\ sweep \in {"idle", "running", "returned", "raised"}

(***************************************************************************)
(* Requests served concurrently                                            *)
(***************************************************************************)
InitConcurrent ==
    /\ settings = AllConfigured
    /\ PipelineBackend
    /\ NoEffects
    /\ IdleRequest
    /\ NoSweep
    /\ rq \in [Requests -> {Arrived(m) : m \in {"tv", "movie"}}]
    /\ adapters = <<>>
    /\ NoAuth
    /\ NoWeb

NextConcurrent ==
    \E r \in Requests :
        \/ RequestParse(r)
        \/ AcquireAdapter(r)
        \/ AdapterCall(r)
        \/ ReleaseAdapter(r)

SpecConcurrent == InitConcurrent /\ [][NextConcurrent]_vars

(***************************************************************************)
(* The credential store and the protected web routes                       *)
(***************************************************************************)
InitAuth ==
    /\ settings = AllConfigured
    /\ PipelineBackend
    /\ NoEffects
    /\ IdleRequest
    /\ NoSweep
    /\ NoRequests
    /\ NoAuth
    /\ NoWeb

NextAuth ==
    \/ \E cookie \in Cookies, u \in Usernames \cup {""},
          p \in Passwords \cup {"abc"}, c \in Passwords :
          AuthSet(cookie, u, p, c)
    \/ \E cookie \in Cookies : AuthEnable(cookie)
    \/ \E cookie \in Cookies : AuthDisable(cookie)
    \/ \E cookie \in Cookies : AuthDelete(cookie)
    \/ \E u \in Usernames, p \in Passwords : LoginSubmit(u, p)
    \/ \E t \in tokens : ExpireToken(t)
    \/ \E cookie \in Cookies : VisitProtected(cookie)

SpecAuth == InitAuth /\ [][NextAuth]_vars

(***************************************************************************)
(* First requests to the web layer                                         *)
(***************************************************************************)
InitWeb ==
    /\ settings = AllConfigured
    /\ PipelineBackend
    /\ NoEffects
    /\ IdleRequest
    /\ NoSweep
    /\ NoRequests
    /\ NoAuth
    /\ NoWeb

NextWeb ==
    \E c \in Callers :
        \/ GetParserEnter(c)
        \/ GetParserResume(c)

SpecWeb == InitWeb /\ [][NextWeb]_vars

(***************************************************************************)
(* Properties                                                              *)
(***************************************************************************)
HasValidated ==
    \/ pc = "validated"
    \/ pc = "done" /\ outcome \in {"validation_failed", "executed", "execute_raised"}

EpisodesWithoutSeason(i) == i.episodes # <<>> /\ i.season = None

MutatingOps == {"delete_item", "delete_episode_file", "add_series", "add_movie",
                "trigger_series_search", "trigger_movie_search"}

\* C1: in every entry point, Executor.execute is only ever called with an
\* Intent for which validate returned the empty list.
C1_ExecuteOnlyWhenValid ==
    execArg # NoIntent => errors = <<>> /\ Validate(execArg) = <<>>

C1_Witness ==
    /\ pc = "done"
    /\ outcome = "executed"
    /\ execArg # NoIntent
    /\ Validate(execArg) = <<>>
    /\ entry = "api"

ExecuteCalls == SelectSeq(log, LAMBDA ev : ev.by = "execute")

Submitted == {ev.id : ev \in {x \in Range(ExecuteCalls) : x.op = "delete_episode_file"}}

IssuedBy(ops) == \E k \in 1..Len(ExecuteCalls) : ExecuteCalls[k].op \in ops

\* the files the backend holds for the requested episodes of the season
FilesOfEpisodes(i) ==
    {e.episodeFileId : e \in {x \in Range(episodes) :
                                 /\ x.seriesId = i.series_id
                                 /\ x.seasonNumber = i.season
                                 /\ x.episodeNumber \in Range(i.episodes)}} \ {0}

\* the files the backend holds for the season
FilesOfSeason(i) ==
    {e.episodeFileId : e \in {x \in Range(episodes) :
                                 /\ x.seriesId = i.series_id
                                 /\ x.seasonNumber = i.season}} \ {0}

RemovedTv(i) ==
    /\ pc = "done"
    /\ execArg = i
    /\ IsTvRemove(i)
    /\ Configured("sonarr")
    /\ Truthy(i.series_id)
    /\ i.season # None

\* C4: a TV Remove/Delete with a resolved series, a season and episodes
\* submits exactly the file ids of the requested episodes of that season that
\* have a file, reports as deleted_count the number of files the backend
\* deleted, and deletes nothing and fails when there is no such file.
C4_EpisodeFilesRemoved ==
    RemovedTv(execArg) /\ execArg.episodes # <<>>
        => /\ Submitted \subseteq FilesOfEpisodes(execArg)
           /\ deletedFiles \subseteq Submitted
           /\ deletedItems = {}
           /\ result.success
                => /\ Submitted = FilesOfEpisodes(execArg)
                   /\ Range(result.data.file_ids) = FilesOfEpisodes(execArg)
                   /\ result.data.deleted_count = Cardinality(deletedFiles)
           /\ FilesOfEpisodes(execArg) = {}
                => ~result.success /\ Submitted = {} /\ deletedFiles = {}
           /\ (FilesOfEpisodes(execArg) # {} /\ \A k \in 1..Len(log) : ~log[k].raised)
                => /\ result.success
                   /\ deletedFiles = FilesOfEpisodes(execArg)

C4_Witness ==
    /\ RemovedTv(execArg)
    /\ execArg.episodes = <<1, 2>>
    /\ \E e \in Range(episodes) :
          /\ e.seriesId = execArg.series_id
          /\ e.seasonNumber = execArg.season
          /\ e.episodeNumber = 2
          /\ e.episodeFileId = 0
    /\ result.success
    /\ result.data.deleted_count = 1
    /\ Cardinality(deletedFiles) = 1

\* C5: a TV Remove/Delete with a resolved series, a season (0 included) and
\* no episodes submits every file id of that season, reports as deleted_count
\* the number of files deleted, and deletes no file of another season and not
\* the series.
C5_SeasonFilesRemoved ==
    RemovedTv(execArg) /\ execArg.episodes = <<>>
        => /\ Submitted \subseteq FilesOfSeason(execArg)
           /\ deletedFiles \subseteq FilesOfSeason(execArg)
           /\ deletedItems = {}
           /\ ~IssuedBy({"delete_item"})
           /\ result.success
                => /\ Submitted = FilesOfSeason(execArg)
                   /\ result.data.deleted_count = Cardinality(deletedFiles)
           /\ (FilesOfSeason(execArg) # {} /\ \A k \in 1..Len(log) : ~log[k].raised)
                => /\ result.success
                   /\ deletedFiles = FilesOfSeason(execArg)
                   /\ result.data.deleted_count = Cardinality(FilesOfSeason(execArg))

C5_Witness ==
    /\ RemovedTv(execArg)
    /\ execArg.episodes = <<>>
    /\ execArg.season = 0
    /\ result.success
    /\ result.data.deleted_count = MaxEpisode
    /\ deletedFiles = FilesOfSeason(execArg)
    /\ \E e \in Range(episodes) :
          e.seriesId = execArg.series_id /\ e.seasonNumber # 0 /\ e.episodeFileId # 0

\* C7: Add fails whenever the quality-profile list or the root-folder list is
\* empty, also when the catalog search for the title would succeed, and then
\* issues no add_series/add_movie call.
C7_AddNeedsDestination ==
    (/\ pc = "done"
     /\ execArg.action = "add"
     /\ GetClientForMediaType(execArg.media_type) # "ValueError"
     /\ (profiles = <<>> \/ rootFolders = <<>>))
        => /\ ~result.success
           /\ ~IssuedBy({"add_series", "add_movie"})
           /\ added = {}

C7_Witness ==
    /\ pc = "done"
    /\ execArg.action = "add"
    /\ execArg.media_type = "tv"
    /\ profiles # <<>>
    /\ rootFolders = <<>>
    /\ Search(execArg.title) # <<>>
    /\ ~result.success
    /\ result.message = "No quality profiles or root folders configured"

\* an exception reached Executor.execute: no adapter for the media type, an
\* adapter method raised, or close() raised
FaultInExecute ==
    \/ GetClientForMediaType(execArg.media_type) = "ValueError"
    \/ \E k \in 1..Len(ExecuteCalls) :
          ExecuteCalls[k].raised /\ ExecuteCalls[k].op # "delete_episode_file"

ExactPositions(title) ==
    {k \in 1..Len(library) : Lower(library[k].title) = Lower(title)}

PartialPositions(title) ==
    {k \in 1..Len(library) : Contains(Lower(library[k].title), Lower(title))}

Least(S) == CHOOSE k \in S : \A j \in S : k <= j

ListingFetched ==
    \E k \in 1..Len(log) :
        log[k].op \in {"get_all_series", "get_all_movies"} /\ ~log[k].raised

\* C6: whenever the library listing holds an item whose title equals the query
\* case-insensitively, the first such item becomes item_id, also when an item
\* that only contains the query comes earlier in the listing; without an exact
\* match the first containing item is chosen.
C6_ExactMatchWins ==
    pc # "parsed" /\ parsed.title # <<>> /\ ListingFetched
        => /\ ExactPositions(parsed.title) # {}
                => /\ intent.item_id = library[Least(ExactPositions(parsed.title))].id
                   /\ parsed.media_type = "tv" => intent.series_id = intent.item_id
           /\ (ExactPositions(parsed.title) = {} /\ PartialPositions(parsed.title) # {})
                => intent.item_id = library[Least(PartialPositions(parsed.title))].id

C6_Witness ==
    /\ pc = "enriched"
    /\ ListingFetched
    /\ Len(library) = 2
    /\ 1 \in PartialPositions(parsed.title) \ ExactPositions(parsed.title)
    /\ 2 \in ExactPositions(parsed.title)
    /\ library[2].title # parsed.title
    /\ intent.item_id = library[2].id

\* the positions of the log that belong to adapter c
CallsOf(c) == {k \in 1..Len(log) : log[k].c = c}

\* C9: every adapter acquired by enrich or execute is closed exactly once on
\* every exit path of the call, and the close is the last call made through it.
C9_ReleasedExactlyOnce ==
    \A k \in 1..Len(log) :
        /\ log[k].c \in {log[j].c : j \in {x \in 1..Len(log) : log[x].op = "acquire"}}
        /\ log[k].op = "acquire"
             => /\ Cardinality({j \in CallsOf(log[k].c) : log[j].op = "close"}) = 1
                /\ Cardinality({j \in CallsOf(log[k].c) : log[j].op = "acquire"}) = 1
                /\ \A j \in CallsOf(log[k].c) : k <= j
                /\ \A j \in CallsOf(log[k].c) :
                      log[j].op = "close" => \A m \in CallsOf(log[k].c) : m <= j

C9_Witness ==
    /\ pc = "done"
    /\ \E j \in 1..Len(log), k \in 1..Len(log) :
          /\ j < k
          /\ log[j].by = "execute"
          /\ log[j].raised
          /\ log[j].op \notin {"close", "delete_episode_file"}
          /\ log[k].op = "close"
          /\ log[k].c = log[j].c
    /\ \E k \in 1..Len(log) : log[k].op = "close" /\ log[k].by = "enrich"

\* test_connection answered and no exception left the try body of the block
ProbeSucceeded(b) ==
    \/ probes[b].probe = "up"
    \/ probes[b].probe = "up_version_raises" /\ b \in VersionGuarded

Position(b) == CHOOSE k \in 1..Len(Backends) : Backends[k] = b

\* C10: a probe that raises or times out is recorded as available=false and
\* never ends the sweep; the returned map holds an entry for every configured
\* backend, each with the availability its own probe produced.
C10_ProbesIsolated ==
    /\ \A b \in BackendNames :
          probes[b].probe # "none"
             => /\ services[b].present
                /\ services[b].available <=> ProbeSucceeded(b)
    /\ sweep = "returned"
          => \A b \in BackendNames :
                /\ services[b].present <=> Configured(b)
                /\ Configured(b) => probes[b].probe # "none"
    /\ sweep = "raised" => probes[Backends[cursor]].closeBad

C10_Witness ==
    /\ sweep = "returned"
    /\ \E a \in BackendNames \ VersionGuarded, b \in BackendNames, c \in BackendNames :
          /\ Position(a) < Position(b)
          /\ Position(c) < Position(b)
          /\ probes[a].probe = "up_version_raises"
          /\ ~services[a].available
          /\ probes[c].probe = "down"
          /\ ~services[c].available
          /\ probes[b].probe = "up"
          /\ services[b].available

\* C11: when test_connection succeeds and the version fetch fails, the backend
\* is recorded with available=true and version unset; a failed version fetch
\* never turns available to false.
C11_VersionFetchBestEffort ==
    \A b \in BackendNames :
        probes[b].probe = "up_version_raises"
            => /\ services[b].present
               /\ services[b].available
               /\ services[b].version = "none"

\* the configured backends whose probe is awaited and has not settled
Pending == {b \in started : probes[b].probe = "none"}

\* C12: the probes of the configured backends run concurrently: while one
\* probe is pending no other configured backend waits for it to be started,
\* and the map is returned only after every probe has settled.
C12_ProbesConcurrent ==
    /\ (sweep = "running" /\ Pending # {})
          => \A b \in BackendNames : Configured(b) => b \in started
    /\ sweep = "returned"
          => \A b \in BackendNames : Configured(b) => probes[b].probe # "none"

\* C13: for every discovery outcome, the outcome without any available
\* backend included, the system prompt lists exactly the backends marked
\* available and flags TV management as not available whenever sonarr is not
\* among them and movie management whenever radarr is not.
C13_PromptMatchesDiscovery ==
    prompt.built
        => /\ Range(prompt.context.listed)
                = {b \in BackendNames : services[b].present /\ services[b].available}
           /\ ~(services["sonarr"].present /\ services["sonarr"].available)
                => "tv" \in prompt.context.missing
           /\ ~(services["radarr"].present /\ services["radarr"].available)
                => "movie" \in prompt.context.missing

\* the extraction raised, gave no structured result, or gave arguments that do
\* not fit the Intent shape
ExtractionUnusable ==
    \/ extracted.kind \in {"error", "no_tool_call"}
    \/ extracted.kind = "args" /\ ~FitsIntent(extracted.args)

\* C14: when the extraction capability raises, returns no structured result or
\* returns arguments that do not fit the Intent shape, parse fails with
\* ValueError and the request ends without any enrich, execute or backend call.
C14_ParseFailureAborts ==
    ExtractionUnusable
        => /\ pc = "done"
           /\ outcome = "parse_error"
           /\ entry = "api" => status = 400
           /\ parsed = NoIntent
           /\ execArg = NoIntent
           /\ log = <<>>
           /\ deletedFiles = {} /\ deletedItems = {} /\ added = {}

C14_Witness ==
    /\ extracted.kind = "args"
    /\ extracted = LlmStray
    /\ entry = "api"
    /\ ~dry_run
    /\ outcome = "parse_error"
    /\ status = 400
    /\ log = <<>>

\* C15: every structured result that satisfies the extraction schema is
\* accepted by parse: for each action and each media type of the schema, parse
\* returns an Intent carrying that action and media type.
C15_SchemaResultsAccepted ==
    (/\ extracted.kind = "args"
     /\ extracted.args.action \in SchemaActions
     /\ extracted.args.media_type \in SchemaMediaTypes)
        => /\ outcome # "parse_error"
           /\ parsed.action = extracted.args.action
           /\ parsed.media_type = extracted.args.media_type

\* C16: the Intent returned by parse has item_id and series_id unset whatever
\* the extraction returns, the identifiers become set only inside enrich, and
\* an Intent built from an action and a media type alone has every optional
\* field unset.
C16_IdsOnlyFromEnrich ==
    /\ parsed.item_id = None
    /\ parsed.series_id = None
    /\ pc \in {"idle", "parsed"} => intent.item_id = None /\ intent.series_id = None
    /\ \A a \in ActionType, m \in MediaType :
          LET i == ParseCommand(LlmArgs(Intent(a, m, <<>>, None, <<>>))).intent
          IN /\ i.title = <<>> /\ i.season = None /\ i.episodes = <<>>
             /\ i.item_id = None /\ i.series_id = None

\* the backend each media type belongs to
OwningBackend ==
    [tv |-> "sonarr", movie |-> "radarr", music |-> "lidarr",
     audiobook |-> "readarr", book |-> "readarr", adult |-> "whisparr"]

MissingParameters(b) ==
    {<<b, f>> : f \in {x \in {"url", "key"} : ~settings[b][x]}}

C18_ResultShape ==
    (pc = "done" /\ execArg # NoIntent)
        => /\ ~result.success => (result.errors # <<>> \/ result.message # "")
           /\ result.data # NoData => result.success
           /\ result.success => result.errors = <<>> /\ result.message # ""

C18_Witness ==
    /\ pc = "done"
    /\ execArg # NoIntent
    /\ ~result.success
    /\ result.errors = <<>>
    /\ result.message = "Could not find series in library"
    /\ result.data = NoData

\* the rules of validate, stated on the Intent's fields
TitleRuleViolated(i) ==
    i.action \in {"remove", "delete", "info", "add"} /\ i.title = <<>>

SeasonRuleViolated(i) ==
    IsTvRemove(i) /\ i.episodes # <<>> /\ i.season = None

\* C19: validate is pure and exhaustive: it issues no backend call, leaves the
\* intent unchanged and returns every violated rule at once (both the title
\* rule and the season rule when both are violated); the list is empty exactly
\* when no rule is violated.
C19_ValidateExhaustive ==
    /\ [](HasValidated
            => /\ TitleRuleViolated(intent)
                    <=> (Range(errors) \cap {TitleRequired, TitleRequiredAdd} # {})
               /\ SeasonRuleViolated(intent) <=> SeasonRequired \in Range(errors)
               /\ errors = <<>>
                    <=> ~(TitleRuleViolated(intent) \/ SeasonRuleViolated(intent)))
    /\ [][pc = "enriched"
            => /\ log' = log
               /\ intent' = intent
               /\ <<deletedFiles, deletedItems, added>>'
                    = <<deletedFiles, deletedItems, added>>]_vars

\* the action and media-type combinations the Executor has no handler for
Unimplemented(i) ==
    \/ i.action = "upgrade"
    \/ i.action \in {"remove", "delete", "add", "list"}
          /\ i.media_type \notin {"tv", "movie"}

NotYetImplemented ==
    {"Remove not yet implemented", "Add not yet implemented",
     "List not yet implemented", "Action not yet implemented"}

\* C20 as stated: for every combination without a handler, execute returns
\* success=false with a "not yet implemented" message, does not raise and
\* issues no mutating backend call.
C20_AlwaysNotYetImplemented ==
    (pc = "done" /\ Unimplemented(execArg))
        => /\ outcome = "executed"
           /\ ~result.success
           /\ result.message \in NotYetImplemented
           /\ ~IssuedBy(MutatingOps)

\* C20 as amended: for every combination without a handler, execute returns
\* success=false, does not raise and issues no mutating backend call; the
\* message is "not yet implemented" whenever the owning backend is configured
\* and, for Add, the profile and root-folder lists were fetched and are not
\* empty, and otherwise reports the configuration or backend failure.
C20_UnimplementedFails ==
    (pc = "done" /\ Unimplemented(execArg))
        => /\ outcome = "executed"
           /\ ~result.success
           /\ ~IssuedBy(MutatingOps)
           /\ deletedFiles = {} /\ deletedItems = {} /\ added = {}
           /\ (/\ ~FaultInExecute
               /\ ~(execArg.action = "add" /\ (profiles = <<>> \/ rootFolders = <<>>)))
                 <=> result.message \in NotYetImplemented

C20_Witness ==
    /\ pc = "done"
    /\ execArg.action = "add"
    /\ execArg.media_type = "music"
    /\ IssuedBy({"get_root_folders"})
    /\ ~result.success
    /\ result.message = "Add not yet implemented"

\* C21: a request with dry_run set is parse-only: once the intent is parsed,
\* neither enrich nor execute is called for it and no backend call of any
\* kind is made.
C21_DryRunParseOnly ==
    dry_run
        => /\ pc = "done"
           /\ outcome \in {"dry_run", "parse_error"}
           /\ log = <<>>
           /\ intent = parsed
           /\ errors = <<>>
           /\ execArg = NoIntent
           /\ result = NoResult
           /\ deletedFiles = {} /\ deletedItems = {} /\ added = {}

C21_Witness ==
    /\ dry_run
    /\ pc = "done"
    /\ outcome = "dry_run"
    /\ parsed.action = "remove"
    /\ parsed.media_type = "movie"
    /\ parsed.title = <<"a">>
    /\ Configured("radarr")
    /\ log = <<>>

EnrichCalls == SelectSeq(log, LAMBDA ev : ev.by = "enrich")

\* enrichment found no library match and took the first catalog result
CatalogFallback ==
    /\ \E k \in 1..Len(EnrichCalls) :
          EnrichCalls[k].op = "search" /\ ~EnrichCalls[k].raised
    /\ pc \in {"enriched", "validated"}
          \/ (pc = "done" /\ outcome \in {"validation_failed", "executed", "execute_raised"})

NotInLibrary == {"Could not find series in library", "Could not find movie in library"}

\* C22: an identifier obtained by the catalog fallback is never used as a
\* library identifier: a Remove/Delete (TV or movie) that follows it issues no
\* delete_item call and reports the title as not found in the library.
C22_CatalogIdNeverLibraryId ==
    (/\ CatalogFallback
     /\ pc = "done"
     /\ outcome \in {"executed", "execute_raised"}
     /\ execArg.action \in {"remove", "delete"}
     /\ execArg.media_type \in {"tv", "movie"})
        => /\ ~IssuedBy({"delete_item"})
           /\ deletedItems = {}
           /\ ~result.success
           /\ result.message \in NotInLibrary

ExecuteReached == pc = "done" /\ outcome \in {"executed", "execute_raised"}

DeleteItemCalls == {ev \in Range(ExecuteCalls) : ev.op = "delete_item"}

\* C23: in the pipeline a TV Remove/Delete issues the whole-series
\* delete_item(series_id) if and only if the series is resolved and neither
\* season nor episodes is set; an intent that names a season or any episodes
\* never causes the whole series to be deleted.
C23_SeriesDeletedOnlyUnscoped ==
    /\ (ExecuteReached /\ IsTvRemove(execArg))
          => /\ DeleteItemCalls # {}
                 <=> /\ Truthy(execArg.series_id)
                     /\ execArg.season = None
                     /\ execArg.episodes = <<>>
             /\ \A ev \in DeleteItemCalls : ev.id = execArg.series_id
             /\ deletedItems \subseteq {execArg.series_id}
    /\ (IsTvRemove(parsed) /\ (parsed.season # None \/ parsed.episodes # <<>>))
          => /\ deletedItems = {}
             /\ \A k \in 1..Len(log) : log[k].op # "delete_item"

C23_Witness ==
    /\ ExecuteReached
    /\ IsTvRemove(execArg)
    /\ execArg.series_id = 2
    /\ execArg.season = None
    /\ execArg.episodes = <<>>
    /\ DeleteItemCalls # {}
    /\ deletedItems = {2}
    /\ result.success

ReSearchOps == {"trigger_series_search", "trigger_movie_search"}

\* the identifier _execute_search looks at was set by a library match
CarriesLibraryId(i) ==
    /\ ~CatalogFallback
    /\ IF i.media_type = "tv" THEN Truthy(i.series_id) ELSE Truthy(i.item_id)

\* C24: Search triggers the backend's native re-search command exactly when
\* the intent carries the library identifier of an item already in the
\* library; when the title exists only in the external catalog, Search does a
\* catalog search on the title and returns at most the first 5 results as
\* data, without triggering a re-search.
C24_ReSearchOnlyForLibraryItems ==
    (/\ ExecuteReached
     /\ execArg.action = "search"
     /\ execArg.media_type \in {"tv", "movie"})
        => /\ IssuedBy(ReSearchOps) <=> CarriesLibraryId(execArg)
           /\ CatalogFallback
                => /\ ~IssuedBy(ReSearchOps)
                   /\ IssuedBy({"search"})
                   /\ result.success
                        => /\ result.data.kind = "results"
                           /\ result.data.items =
                                  ExtIdsOf(Take(Search(execArg.title), SearchLimit))
                           /\ Len(result.data.items) <= SearchLimit

\* enrich has returned or raised
EnrichLeft == pc = "enriched" \/ (pc = "done" /\ outcome = "enrich_error")

\* the catalog search of enrichment was issued and answered
EnrichSearched ==
    \E k \in 1..Len(EnrichCalls) : EnrichCalls[k].op = "search" /\ ~EnrichCalls[k].raised

\* C25: enrichment calls the external catalog search only when no library
\* item matches the title exactly or by substring; if the search returns no
\* results enrich fails with a ValueError and leaves item_id and series_id
\* unset, otherwise item_id becomes the catalog identifier of the first result
\* and series_id stays unset.
C25_CatalogFallback ==
    EnrichLeft
        => /\ (\E k \in 1..Len(EnrichCalls) : EnrichCalls[k].op = "search")
                => MatchIndex(library, parsed.title) = 0
           /\ (EnrichSearched /\ Search(parsed.title) = <<>>)
                => /\ outcome = "enrich_error"
                   /\ intent.item_id = None
                   /\ intent.series_id = None
           /\ (EnrichSearched /\ Search(parsed.title) # <<>>)
                => /\ intent.item_id = Search(parsed.title)[1].extId
                   /\ intent.series_id = None
                   /\ (\A k \in 1..Len(log) : ~log[k].raised) => pc = "enriched"

\* C26: validate reports the season-required violation only when season is
\* unset: a TV Remove/Delete intent with a title, a non-empty episodes list
\* and season set to any non-negative integer, 0 included, validates with an
\* empty list.
C26_SeasonZeroIsSet ==
    HasValidated
        => /\ SeasonRequired \in Range(errors) => intent.season = None
           /\ (/\ IsTvRemove(intent)
               /\ intent.title # <<>>
               /\ intent.episodes # <<>>
               /\ intent.season >= 0)
                 => errors = <<>>

InPhase(r) == rq[r].pc \in {"enriching", "executing"}

AdaptersOf(r) == {rq[r].enrichAdapter, rq[r].executeAdapter} \ {0}

\* C27: concurrent requests are independent: every enrich and execute call
\* obtains its own adapter instance, so under any interleaving the release of
\* one request's adapter never closes the adapter another request is still
\* using, and no Intent is shared between requests.
C27_RequestsIndependent ==
    /\ \A a \in 1..Len(adapters) :
          /\ adapters[a].acquisitions = 1
          /\ adapters[a].closed => adapters[a].inUseBy = {}
    /\ \A r \in Requests :
          /\ InPhase(r)
                => /\ ~adapters[rq[r].adapter].closed
                   /\ adapters[rq[r].adapter].inUseBy = {r}
          /\ rq[r].executeAdapter # 0 => rq[r].executeAdapter # rq[r].enrichAdapter
    /\ \A r1 \in Requests, r2 \in Requests :
          r1 # r2
             => /\ AdaptersOf(r1) \cap AdaptersOf(r2) = {}
                /\ rq[r1].intent # 0 => rq[r1].intent # rq[r2].intent

C27_Witness ==
    \E r1 \in Requests, r2 \in Requests :
        /\ r1 # r2
        /\ rq[r1].media_type = rq[r2].media_type
        /\ rq[r1].pc = "enriched"
        /\ adapters[rq[r1].enrichAdapter].closed
        /\ rq[r2].pc = "executing"
        /\ rq[r2].called
        /\ adapters[rq[r2].adapter].http = "open"
        /\ rq[r2].enrichAdapter < rq[r1].enrichAdapter

\* C28: after any sequence of set_credentials, enable, disable and delete,
\* authentication is required only if credentials are stored;
\* set_credentials leaves auth enabled, disable keeps the credentials, delete
\* removes them, and enable without stored credentials raises ValueError and
\* leaves the store unchanged.
C28_AuthRequiresCredentials ==
    /\ IsAuthRequired(store) => HasCredentials(store)
    /\ authOp.op = "set_credentials"
          => IsEnabled(store) /\ IsAuthRequired(store) /\ ~authOp.raised
    /\ authOp.op = "disable"
          => /\ ~IsAuthRequired(store)
             /\ Read(store).username = Read(authOp.before).username
             /\ Read(store).password_hash = Read(authOp.before).password_hash
    /\ authOp.op = "delete" => ~HasCredentials(store) /\ ~IsAuthRequired(store)
    /\ authOp.op = "enable"
          => IF HasCredentials(authOp.before)
             THEN ~authOp.raised /\ IsAuthRequired(store)
             ELSE authOp.raised /\ store = authOp.before

\* enable was called on a store that disable had written without credentials
C28_Witness ==
    /\ authOp.op = "enable"
    /\ authOp.raised
    /\ store.file
    /\ ~HasCredentials(store)

\* C29: while authentication is required, a protected web route admits a
\* request only if it carries a session token issued for the currently
\* stored credentials: a token issued before the credentials were deleted or
\* replaced with a different username is rejected by require_auth.
C29_StaleTokenRejected ==
    (visit.required /\ visit.admitted)
        => /\ visit.cookie.key = SecretKey
           /\ ~visit.cookie.expired
           /\ visit.cookie.user = visit.stored

\* the discovery sweeps get_parser has started
SweepsStarted ==
    Len(parsers) + Cardinality({c \in Callers : callers[c].pc = "sweeping"})

\* C30: the web layer's shared CommandParser is created at most once per
\* process: when several first requests call get_parser concurrently, exactly
\* one discovery sweep runs, exactly one parser is constructed and every
\* request receives that same instance.
C30_ParserCreatedOnce ==
    /\ SweepsStarted <= 1
    /\ Len(parsers) <= 1
    /\ \A c1 \in Callers, c2 \in Callers :
          (callers[c1].pc = "returned" /\ callers[c2].pc = "returned")
             => callers[c1].got = callers[c2].got

====
